---- MODULE Spec2Model ----
(***************************************************************************)
(* solana-latency-checker (src/main.go): _main fetches the cluster's peer  *)
(* list, checkLatency pings every peer from its own goroutine under a      *)
(* buffered-channel semaphore and an errgroup, printResult sorts and       *)
(* prints the lowest latencies.                                            *)
(*                                                                         *)
(* Strings the code takes apart (the gossip address) are sequences of      *)
(* one-character strings.  Durations are integers in nanoseconds.  A       *)
(* pointer to a task's copy of its peer record is the task's number.       *)
(***************************************************************************)
EXTENDS Integers, Sequences, FiniteSets

\* ---------------------------------------------------------------- bounds

\* Longest peer list getClusterNodes returns in the run specification.
MaxPeers == 3

\* Capacity of sem.  main.go:117 sets 20; the model scales it down so that
\* peer lists longer than the capacity are reached.
concurrency == 2

\* Largest --top value.
MaxTop == 12

\* Longest freely chosen part of printResult's input (PrintInputs).
MaxFree == 3

\* ------------------------------------------------------------- data types

\* AvgRtt values a probe reports, in nanoseconds.
Latencies == {1500000, 2000000}

\* The round trip the network gives peer p in the run specification: odd
\* peers are the slower ones, so later peers tie with and undercut earlier
\* ones.
RttOf(p) == IF p % 2 = 1 THEN 2000000 ELSE 1500000

\* PacketLoss values a probe reports, in percent.
Losses == {0, 20}

\* time.Duration.Milliseconds: whole milliseconds of a nanosecond count.
Milliseconds(d) == d \div 1000000

\* The host of peer p, one character.
HostOf(p) == <<"a", "b", "c", "d", "e", "f", "g", "h", "i", "j", "k", "l", "m">>[p]

\* The gossip strings a peer record may carry: "h:p" (well formed), "h"
\* and "h:p:p".
GossipOf(p, kind) ==
    CASE kind = "hostport" -> <<HostOf(p), ":", "p">>
      [] kind = "host"     -> <<HostOf(p)>>
      [] kind = "three"    -> <<HostOf(p), ":", "p", ":", "p">>

GossipKinds == {"hostport", "host", "three"}

\* A ClusterNode as far as the program reads it: Gossip and Pubkey.
ClusterNode(p, kind) == [Gossip |-> GossipOf(p, kind), Pubkey |-> p]

\* The zero ClusterNode (the loop variable before the first iteration).
NoNode == [Gossip |-> <<>>, Pubkey |-> 0]

\* strings.Split(s, sep) for a one-character sep.
RECURSIVE Split(_, _)
Split(s, sep) ==
    IF \A k \in 1..Len(s) : s[k] # sep
    THEN <<s>>
    ELSE LET k == CHOOSE k \in 1..Len(s) :
                      s[k] = sep /\ \A j \in 1..(k - 1) : s[j] # sep
         IN  <<SubSeq(s, 1, k - 1)>> \o Split(SubSeq(s, k + 1, Len(s)), sep)

\* An error value is its kind and the peer whose task made it; nil is NoErr.
NoErr == [kind |-> "nil", peer |-> 0]
Err(kind, p) == [kind |-> kind, peer |-> p]

\* ------------------------------------------------------------------ state

VARIABLES
    mpc,          \* position of the main goroutine
    nodes,        \* clusterNodes.Result
    idx,          \* number of loop iterations of checkLatency begun
    node,         \* the range loop's variable
    sem,          \* len(sem): slots held
    tpc,          \* position of each spawned task
    tnode,        \* each task's copy of its peer record (node := node)
    ip,           \* each task's split[0]
    stats,        \* each task's pinger.Statistics()
    hdr,          \* the value of result a task's append has loaded
    terr,         \* the error each task returns
    result,       \* checkLatency's result slice
    barCurrent,   \* increments the bar has received
    barFinished,  \* bar.Finish has been called
    egErr,        \* errgroup's first error
    ret,          \* what checkLatency returned
    latency,      \* printResult's slice
    top,          \* printResult's top
    count,        \* printResult's count
    i,            \* printResult's loop index
    out,          \* lines printed
    exit          \* how the process ended

vars == <<mpc, nodes, idx, node, sem, tpc, tnode, ip, stats, hdr, terr,
          result, barCurrent, barFinished, egErr, ret, latency, top, count, i,
          out, exit>>

taskVars == <<tpc, ip, stats, hdr, terr>>
printVars == <<latency, top, count, i, out>>

Tasks == 1..Len(tpc)

NoStats == [AvgRtt |-> 0, PacketLoss |-> 0]
NoRet == [result |-> <<>>, isNil |-> TRUE, err |-> NoErr]

\* How the process stands: running, or ended with "ok" (status 0), "fatal"
\* (log.Fatal(err), status 1) or "panic" (runtime panic, status 2).
Running == [status |-> "running", err |-> NoErr]
Exited(status, e) == [status |-> status, err |-> e]

Init ==
    /\ mpc = "buildURL"
    /\ nodes = <<>>
    /\ idx = 0
    /\ node = NoNode
    /\ sem = 0
    /\ tpc = <<>>
    /\ tnode = <<>>
    /\ ip = <<>>
    /\ stats = <<>>
    /\ hdr = <<>>
    /\ terr = <<>>
    /\ result = <<>>
    /\ barCurrent = 0
    /\ barFinished = FALSE
    /\ egErr = NoErr
    /\ ret = NoRet
    /\ latency = <<>>
    /\ top = 0
    /\ count = 0
    /\ i = 0
    /\ out = <<>>
    /\ exit = Running

\* ------------------------------------------------------------------ _main

\* What url.Parse makes of the --url values: "unparsable" fails to parse,
\* "name" and "badname" parse without scheme or host, and the expansion
\* http://api.<name>.solana.com parses for "name" only; "full" has both.
UrlKeys == {"unparsable", "name", "badname", "full"}

\* buildURL's error: nil when it returns a URL.
BuildURLErr(key) ==
    IF key = "unparsable" THEN Err("parse", 0)
    ELSE IF key = "badname" THEN Err("parse", 0)
    ELSE NoErr

\* Fatal with the error only logged: the process ends with status 0.
FatalStatusZero(e) ==
    /\ mpc' = "exited"
    /\ exit' = Exited("ok", e)

\* main.go:24-26: _main returned err, log.Fatal(err) ends the process with
\* status 1.
Fatal(e) ==
    /\ mpc' = "exited"
    /\ exit' = Exited("fatal", e)

\* main.go:45-48
BuildURL(key) ==
    /\ mpc = "buildURL"
    /\ IF BuildURLErr(key) # NoErr
       THEN Fatal(BuildURLErr(key))
       ELSE mpc' = "getClusterNodes" /\ UNCHANGED exit
    /\ UNCHANGED <<nodes, idx, node, sem, tnode, result, barCurrent,
                   barFinished, egErr, ret>>
    /\ UNCHANGED taskVars
    /\ UNCHANGED printVars

\* The errors of getClusterNodes (main.go:99-112).
FetchErrs == {"Post", "ReadAll", "Unmarshal"}

\* main.go:49-52 with getClusterNodes failing: the POST, the read of the
\* body or json.Unmarshal returns an error.
GetClusterNodesFail(kind) ==
    /\ mpc = "getClusterNodes"
    /\ Fatal(Err(kind, 0))
    /\ UNCHANGED <<nodes, idx, node, sem, tnode, result, barCurrent,
                   barFinished, egErr, ret>>
    /\ UNCHANGED taskVars
    /\ UNCHANGED printVars

\* main.go:49 with getClusterNodes returning n peer records, then
\* checkLatency's first lines (120-124): empty result, empty sem, new bar.
GetClusterNodesOk(n, kinds) ==
    /\ mpc = "getClusterNodes"
    /\ nodes' = [p \in 1..n |-> ClusterNode(p, kinds[p])]
    /\ result' = <<>>
    /\ sem' = 0
    /\ egErr' = NoErr
    /\ barCurrent' = 0
    /\ barFinished' = FALSE
    /\ idx' = 0
    /\ mpc' = "loop"
    /\ UNCHANGED <<node, tnode, ret, exit>>
    /\ UNCHANGED taskVars
    /\ UNCHANGED printVars

\* ----------------------------------------------------------- checkLatency

\* SemFull with the comparison off by one: a send succeeds on a full buffer.
SemFullOffByOne == sem > concurrency

\* sem <- struct{}{} blocks while the channel's buffer is full.
SemFull == sem >= concurrency

\* CoordAcquire with the send left to the task: the loop goes on to start
\* the next peer's task whether or not the buffer is full.
CoordAcquireNoWait ==
    /\ mpc = "loop"
    /\ idx < Len(nodes)
    /\ sem' = sem + 1
    /\ idx' = idx + 1
    /\ node' = nodes[idx + 1]
    /\ mpc' = "go"
    /\ UNCHANGED <<nodes, tnode, result, barCurrent, barFinished,
                   egErr, ret, exit>>
    /\ UNCHANGED taskVars
    /\ UNCHANGED printVars

\* main.go:125-126: the loop takes the next peer and the main goroutine
\* sends on sem.
CoordAcquire ==
    /\ mpc = "loop"
    /\ idx < Len(nodes)
    /\ ~SemFull
    /\ sem' = sem + 1
    /\ idx' = idx + 1
    /\ node' = nodes[idx + 1]
    /\ mpc' = "go"
    /\ UNCHANGED <<nodes, tnode, result, barCurrent, barFinished,
                   egErr, ret, exit>>
    /\ UNCHANGED taskVars
    /\ UNCHANGED printVars

\* main.go:127-128: node := node, eg.Go starts the task.
CoordGo ==
    /\ mpc = "go"
    /\ tnode' = Append(tnode, node)
    /\ tpc' = Append(tpc, "probe")
    /\ ip' = Append(ip, <<>>)
    /\ stats' = Append(stats, NoStats)
    /\ hdr' = Append(hdr, <<>>)
    /\ terr' = Append(terr, NoErr)
    /\ mpc' = "loop"
    /\ UNCHANGED <<nodes, idx, node, sem, result, barCurrent,
                   barFinished, egErr, ret, exit>>
    /\ UNCHANGED printVars

\* main.go:153: the loop is over, bar.Finish().
BarFinish ==
    /\ mpc = "loop"
    /\ idx = Len(nodes)
    /\ barFinished' = TRUE
    /\ mpc' = "wait"
    /\ UNCHANGED <<nodes, idx, node, sem, tnode, result, barCurrent,
                   egErr, ret, exit>>
    /\ UNCHANGED taskVars
    /\ UNCHANGED printVars

\* AllDone as a group that is cancelled by its first error: Wait no longer
\* waits for the tasks still running.
AllDoneOrErr == egErr # NoErr \/ \A t \in Tasks : tpc[t] = "done"

\* AllDone with the join made on the slots instead of the WaitGroup: a task
\* counts as ended once it has released its slot.
AllDoneReleased == \A t \in Tasks : tpc[t] \in {"exit", "done"}

\* Every task eg.Go started has returned (the WaitGroup's counter is 0).
AllDone == \A t \in Tasks : tpc[t] = "done"

\* CheckLatencyReturn with eg.Wait's error dropped.
CheckLatencyReturnIgnoreErr(e, res) ==
    [result |-> res, isNil |-> FALSE, err |-> NoErr]

\* What checkLatency returns once eg.Wait has returned e (main.go:154-157).
CheckLatencyReturn(e, res) ==
    IF e # NoErr
    THEN [result |-> <<>>, isNil |-> TRUE, err |-> e]
    ELSE [result |-> res, isNil |-> FALSE, err |-> NoErr]

\* main.go:154-157: eg.Wait() returns when every task has returned.
EgWait ==
    /\ mpc = "wait"
    /\ AllDone
    /\ ret' = CheckLatencyReturn(egErr, result)
    /\ mpc' = "returned"
    /\ UNCHANGED <<nodes, idx, node, sem, tnode, result, barCurrent,
                   barFinished, egErr, exit>>
    /\ UNCHANGED taskVars
    /\ UNCHANGED printVars

\* checkLatency has returned: its locals, its goroutines' locals and the
\* bar are no longer reachable.  The peer records its entries point at stay.
Forget ==
    /\ idx' = 0
    /\ node' = NoNode
    /\ sem' = 0
    /\ tpc' = <<>>
    /\ ip' = <<>>
    /\ stats' = <<>>
    /\ hdr' = <<>>
    /\ terr' = <<>>
    /\ result' = <<>>
    /\ barCurrent' = 0
    /\ barFinished' = FALSE
    /\ egErr' = NoErr

\* main.go:54-56: checkLatency returned an error.
MainFail ==
    /\ mpc = "returned"
    /\ ret.err # NoErr
    /\ Fatal(ret.err)
    /\ Forget
    /\ UNCHANGED <<nodes, tnode, ret>>
    /\ UNCHANGED printVars

\* The --top values of the run specification: 0, an explicit 1 and the
\* flag's default (main.go:41).
RunTops == {0, 1, 10}

\* main.go:57: printResult(latency, c.Uint("top")).
CallPrintResult(t) ==
    /\ mpc = "returned"
    /\ ret.err = NoErr
    /\ latency' = ret.result
    /\ top' = t
    /\ mpc' = "sort"
    /\ Forget
    /\ UNCHANGED <<nodes, tnode, ret, exit, count, i, out>>

\* ------------------------------------------- the task checkLatency spawns

SetPc(t, pc) == tpc' = [tpc EXCEPT ![t] = pc]

\* ReturnErr with the release not deferred: an early return skips it.
ReturnErrNoRelease(t, e) ==
    /\ terr' = [terr EXCEPT ![t] = e]
    /\ SetPc(t, "exit")

\* return err from the task: the deferred release runs next.
ReturnErr(t, e) ==
    /\ terr' = [terr EXCEPT ![t] = e]
    /\ SetPc(t, "release")

coordVars == <<mpc, nodes, idx, node, tnode, egErr, ret, exit>>

\* strings.Split(node.Gossip, ":") of main.go:130
SplitGossip(t) == Split(tnode[t].Gossip, ":")

\* Lines 130-145 read and write nothing another goroutine shares, so each
\* way through them is one step of the task.

\* main.go:130-133: the gossip address does not split in two.
TaskInvalidGossip(t) ==
    /\ tpc[t] = "probe"
    /\ Len(SplitGossip(t)) # 2
    /\ ReturnErr(t, Err("invalid gossip ip", t))
    /\ UNCHANGED <<ip, stats, hdr, sem, result, barCurrent, barFinished>>
    /\ UNCHANGED coordVars
    /\ UNCHANGED printVars

\* main.go:130-137: ping.NewPinger(split[0]) fails.
TaskNewPingerFail(t) ==
    /\ tpc[t] = "probe"
    /\ Len(SplitGossip(t)) = 2
    /\ ip' = [ip EXCEPT ![t] = SplitGossip(t)[1]]
    /\ ReturnErr(t, Err("NewPinger", t))
    /\ UNCHANGED <<stats, hdr, sem, result, barCurrent, barFinished>>
    /\ UNCHANGED coordVars
    /\ UNCHANGED printVars

\* main.go:130-144: pinger.Run() fails.
TaskRunFail(t) ==
    /\ tpc[t] = "probe"
    /\ Len(SplitGossip(t)) = 2
    /\ ip' = [ip EXCEPT ![t] = SplitGossip(t)[1]]
    /\ ReturnErr(t, Err("Run", t))
    /\ UNCHANGED <<stats, hdr, sem, result, barCurrent, barFinished>>
    /\ UNCHANGED coordVars
    /\ UNCHANGED printVars

\* main.go:130-145: pinger.Run() returns nil, pinger.Statistics() is read.
TaskRun(t, loss) ==
    /\ tpc[t] = "probe"
    /\ Len(SplitGossip(t)) = 2
    /\ ip' = [ip EXCEPT ![t] = SplitGossip(t)[1]]
    /\ stats' = [stats EXCEPT ![t] = [AvgRtt |-> RttOf(t), PacketLoss |-> loss]]
    /\ SetPc(t, "loss")
    /\ UNCHANGED <<hdr, terr, sem, result, barCurrent, barFinished>>
    /\ UNCHANGED coordVars
    /\ UNCHANGED printVars

\* Measured with any reply counting as a measurement.
MeasuredSomeReply(st) == st.PacketLoss < 100

\* main.go:146: only a probe without packet loss is appended.
Measured(st) == st.PacketLoss = 0

\* The ClusterLatency main.go:147 builds; ClusterNode points at the task's
\* own copy of the peer record.
Entry(t) == [Time |-> stats[t].AvgRtt, IP |-> ip[t], ClusterNode |-> t]

\* main.go:147, first half of result = append(result, ...): the task
\* loads the slice.  No lock is held, other tasks run between the halves.
TaskAppendLoad(t) ==
    /\ tpc[t] = "loss"
    /\ Measured(stats[t])
    /\ hdr' = [hdr EXCEPT ![t] = result]
    /\ SetPc(t, "store")
    /\ UNCHANGED <<ip, stats, terr, sem, result, barCurrent, barFinished>>
    /\ UNCHANGED coordVars
    /\ UNCHANGED printVars

\* append(result, e) on a slice of n entries that single appends built from
\* []ClusterLatency{}: the capacity doubles when it is used up (1, 2, 4, 8),
\* so the entry is written into the array at hand, without a copy, when n
\* is not zero and not a power of two.
RECURSIVE PowerOfTwo(_)
PowerOfTwo(n) == n = 1 \/ (n > 1 /\ n % 2 = 0 /\ PowerOfTwo(n \div 2))

InPlace(n) == n > 0 /\ ~PowerOfTwo(n)

\* What a slot holds that two tasks wrote entries a and b to without
\* synchronisation: an entry is several words, written one by one, so each
\* field is the one or the other's.
Torn(a, b) ==
    {[Time |-> x.Time, IP |-> y.IP, ClusterNode |-> z.ClusterNode] :
         x \in {a, b}, y \in {a, b}, z \in {a, b}}

\* The values of result after task t's store.  When t writes in place and
\* result is the slice t loaded with another task's entry behind it, that
\* task wrote the same slot since t's load, and the slot is torn.
AppendStored(t) ==
    LET n == Len(hdr[t])
    IN  IF /\ InPlace(n)
           /\ Len(result) = n + 1
           /\ SubSeq(result, 1, n) = hdr[t]
        THEN {Append(hdr[t], e) : e \in Torn(result[n + 1], Entry(t))}
        ELSE {Append(hdr[t], Entry(t))}

\* main.go:147, second half: the slice the task loaded, with its entry
\* behind it, is stored to result.
TaskAppendStore(t) ==
    /\ tpc[t] = "store"
    /\ result' \in AppendStored(t)
    /\ hdr' = [hdr EXCEPT ![t] = <<>>]
    /\ SetPc(t, "incr")
    /\ UNCHANGED <<ip, stats, terr, sem, barCurrent, barFinished>>
    /\ UNCHANGED coordVars
    /\ UNCHANGED printVars

\* main.go:146-148 with packet loss: nothing is appended.
TaskSkipAppend(t) ==
    /\ tpc[t] = "loss"
    /\ ~Measured(stats[t])
    /\ SetPc(t, "incr")
    /\ UNCHANGED <<ip, stats, hdr, terr, sem, result, barCurrent, barFinished>>
    /\ UNCHANGED coordVars
    /\ UNCHANGED printVars

\* TaskIncrement with the call of bar.Increment left out.
TaskIncrementSkip(t) ==
    /\ tpc[t] = "incr"
    /\ SetPc(t, "release")
    /\ UNCHANGED <<ip, stats, hdr, terr, sem, result, barCurrent, barFinished>>
    /\ UNCHANGED coordVars
    /\ UNCHANGED printVars

\* main.go:149-150: bar.Increment(), return nil.
TaskIncrement(t) ==
    /\ tpc[t] = "incr"
    /\ barCurrent' = barCurrent + 1
    /\ SetPc(t, "release")
    /\ UNCHANGED <<ip, stats, hdr, terr, sem, result, barFinished>>
    /\ UNCHANGED coordVars
    /\ UNCHANGED printVars

\* TaskRelease with the receive from sem left out: the task ends and keeps
\* its slot.
TaskReleaseKeep(t) ==
    /\ tpc[t] = "release"
    /\ SetPc(t, "exit")
    /\ UNCHANGED <<ip, stats, hdr, terr, sem, result, barCurrent, barFinished>>
    /\ UNCHANGED coordVars
    /\ UNCHANGED printVars

\* main.go:129: the deferred <-sem, on every return of the task.
TaskRelease(t) ==
    /\ tpc[t] = "release"
    /\ sem' = sem - 1
    /\ SetPc(t, "exit")
    /\ UNCHANGED <<ip, stats, hdr, terr, result, barCurrent, barFinished>>
    /\ UNCHANGED coordVars
    /\ UNCHANGED printVars

\* FirstErr with the latest error kept instead of the first.
LastErr(held, e) == IF e # NoErr THEN e ELSE held

\* errgroup keeps the first non-nil error a task returns.
FirstErr(held, e) == IF held = NoErr THEN e ELSE held

\* main.go:128: eg.Go's wrapper after the task's function returned: the
\* error is recorded and the WaitGroup is told the task is done.
TaskExit(t) ==
    /\ tpc[t] = "exit"
    /\ egErr' = FirstErr(egErr, terr[t])
    /\ SetPc(t, "done")
    /\ UNCHANGED <<ip, stats, hdr, terr, sem, result, barCurrent, barFinished>>
    /\ UNCHANGED <<mpc, nodes, idx, node, tnode, ret, exit>>
    /\ UNCHANGED printVars

\* ------------------------------------------------------------ printResult

\* Less with the comparison turned round.
LessGreater(a, b) == a.Time > b.Time

\* The less function of main.go:161.
Less(a, b) == a.Time < b.Time

RECURSIVE SortedBy(_)
\* Every arrangement of s in which no entry is less than an entry before
\* it: all that sort.Slice promises (it is not stable).
SortedBy(s) ==
    IF s = <<>> THEN {<<>>}
    ELSE LET firsts == {k \in 1..Len(s) : \A j \in 1..Len(s) : ~Less(s[j], s[k])}
             Without(k) == SubSeq(s, 1, k - 1) \o SubSeq(s, k + 1, Len(s))
         IN  UNION {{<<s[k]>> \o r : r \in SortedBy(Without(k))} : k \in firsts}

\* data.Swap(a, b)
Swap(s, a, b) == [s EXCEPT ![a] = s[b], ![b] = s[a]]

RECURSIVE SiftBack(_, _)
\* Inner loop of the sort package's insertion sort:
\* for j := i; j > a && less(j, j-1); j-- { swap(j, j-1) }
SiftBack(s, j) ==
    IF j > 1 /\ Less(s[j], s[j - 1])
    THEN SiftBack(Swap(s, j, j - 1), j - 1)
    ELSE s

RECURSIVE InsertionSort(_, _)
\* The sort package's insertion sort, from its turn i on (the first is 2).
InsertionSort(s, k) ==
    IF k > Len(s) THEN s ELSE InsertionSort(SiftBack(s, k), k + 1)

RECURSIVE ShellPass(_, _)
\* The pass with gap 6 that quickSort makes before its insertion sort:
\* for i := a + 6; i < b; i++ { if less(i, i-6) { swap(i, i-6) } }
\* from its turn k on (the first is 7).
ShellPass(s, k) ==
    IF k > Len(s) THEN s
    ELSE ShellPass(IF Less(s[k], s[k - 6]) THEN Swap(s, k, k - 6) ELSE s, k + 1)

\* sort.Slice(latency, less) of main.go:161.  On a slice of at most 12
\* entries the sort package runs its insertion sort alone (pdqsort, Go 1.19
\* and later) or behind the gap-6 pass (quickSort, before Go 1.19); the
\* build decides which.  On a longer slice: any sorted arrangement.
SortSlice(s) ==
    IF Len(s) <= 12
    THEN {InsertionSort(s, 2), InsertionSort(ShellPass(s, 7), 2)}
    ELSE SortedBy(s)

\* main.go:162-165: the number of lines to print.
PrintCount(n, t) == IF n < 10 THEN n ELSE t

\* The line main.go:167 prints for index k (k counts from 0).
Line(k) ==
    [index |-> k,
     ms |-> Milliseconds(latency[k + 1].Time),
     ip |-> latency[k + 1].IP,
     pubkey |-> tnode[latency[k + 1].ClusterNode].Pubkey]

\* main.go:161-165
Sort ==
    /\ mpc = "sort"
    /\ latency' \in SortSlice(latency)
    /\ count' = PrintCount(Len(latency), top)
    /\ i' = 0
    /\ mpc' = "print"
    /\ UNCHANGED <<nodes, idx, node, sem, tnode, result, barCurrent,
                   barFinished, egErr, ret, exit, top, out>>
    /\ UNCHANGED taskVars

\* main.go:166-167, 58: one turn of the print loop.  The loop ends when i
\* reaches count and the run exits 0; an index past the end of latency is a
\* runtime panic (index out of range).
PrintStep ==
    /\ mpc = "print"
    /\ IF i >= count
       THEN /\ mpc' = "exited"
            /\ exit' = Exited("ok", NoErr)
            /\ UNCHANGED <<i, out>>
       ELSE IF i < Len(latency)
       THEN /\ out' = Append(out, Line(i))
            /\ i' = i + 1
            /\ UNCHANGED <<mpc, exit>>
       ELSE /\ mpc' = "exited"
            /\ exit' = Exited("panic", NoErr)
            /\ UNCHANGED <<i, out>>
    /\ UNCHANGED <<nodes, idx, node, sem, tnode, result, barCurrent,
                   barFinished, egErr, ret, latency, top, count>>
    /\ UNCHANGED taskVars

\* ---------------------------------------------------------- specification

Next ==
    \/ \E key \in UrlKeys : BuildURL(key)
    \/ \E kind \in FetchErrs : GetClusterNodesFail(kind)
    \/ \E n \in 0..MaxPeers : \E kinds \in [1..n -> GossipKinds] :
           GetClusterNodesOk(n, kinds)
    \/ CoordAcquire
    \/ CoordGo
    \/ BarFinish
    \/ EgWait
    \/ MainFail
    \/ \E t \in RunTops : CallPrintResult(t)
    \/ \E t \in Tasks : TaskInvalidGossip(t)
    \/ \E t \in Tasks : TaskNewPingerFail(t)
    \/ \E t \in Tasks : TaskRunFail(t)
    \/ \E t \in Tasks : \E loss \in Losses : TaskRun(t, loss)
    \/ \E t \in Tasks : TaskAppendLoad(t)
    \/ \E t \in Tasks : TaskAppendStore(t)
    \/ \E t \in Tasks : TaskSkipAppend(t)
    \/ \E t \in Tasks : TaskIncrement(t)
    \/ \E t \in Tasks : TaskRelease(t)
    \/ \E t \in Tasks : TaskExit(t)
    \/ Sort
    \/ PrintStep

Spec == Init /\ [][Next]_vars

\* The steps of the main goroutine, and those of task t.
MainStep ==
    \/ \E key \in UrlKeys : BuildURL(key)
    \/ \E kind \in FetchErrs : GetClusterNodesFail(kind)
    \/ \E n \in 0..MaxPeers : \E kinds \in [1..n -> GossipKinds] :
           GetClusterNodesOk(n, kinds)
    \/ CoordAcquire
    \/ CoordGo
    \/ BarFinish
    \/ EgWait
    \/ MainFail
    \/ \E t \in RunTops : CallPrintResult(t)
    \/ Sort
    \/ PrintStep

TaskStep(t) ==
    \/ TaskInvalidGossip(t)
    \/ TaskNewPingerFail(t)
    \/ TaskRunFail(t)
    \/ \E loss \in Losses : TaskRun(t, loss)
    \/ TaskAppendLoad(t)
    \/ TaskAppendStore(t)
    \/ TaskSkipAppend(t)
    \/ TaskIncrement(t)
    \/ TaskRelease(t)
    \/ TaskExit(t)

\* The run under Go's scheduler, which lets every goroutine that can take a
\* step take one, and with probes that end (pinger.Timeout, main.go:140):
\* the main goroutine and every task are weakly fair.
FairSpec ==
    /\ Spec
    /\ WF_vars(MainStep)
    /\ \A t \in 1..MaxPeers : WF_vars(t \in Tasks /\ TaskStep(t))

\* ------------------------------------------- printResult on its own inputs

\* Eight entries' latencies, no two alike and none in Latencies; with them
\* an input is as long as the 10 of main.go:163 and longer.
Pad == <<7000000, 4000000, 11000000, 6000000, 9000000, 5000000, 10000000,
         8000000>>

\* The latencies of printResult's inputs: up to MaxFree latencies chosen
\* freely, alone or put before and between the halves of Pad.
PrintTimes ==
    LET free == UNION {[1..n -> Latencies] : n \in 0..MaxFree}
    IN  free \cup {f \o SubSeq(Pad, 1, 4) \o g \o SubSeq(Pad, 5, 8) :
                      <<f, g>> \in {fg \in free \X free :
                                       Len(fg[1]) + Len(fg[2]) <= MaxFree}}

\* The ResultSet with latencies ts: entry k is peer k's.
ResultOf(ts) ==
    [k \in 1..Len(ts) |-> [Time |-> ts[k], IP |-> <<HostOf(k)>>, ClusterNode |-> k]]

\* printResult is called with any such ResultSet and any top up to MaxTop.
InitPrint ==
    /\ \E ts \in PrintTimes :
         /\ nodes = [p \in 1..Len(ts) |-> ClusterNode(p, "hostport")]
         /\ tnode = [p \in 1..Len(ts) |-> ClusterNode(p, "hostport")]
         /\ ret = [result |-> ResultOf(ts), isNil |-> FALSE, err |-> NoErr]
         /\ latency = ResultOf(ts)
    /\ top \in 0..MaxTop
    /\ mpc = "sort"
    /\ idx = 0
    /\ node = NoNode
    /\ sem = 0
    /\ tpc = <<>>
    /\ ip = <<>>
    /\ stats = <<>>
    /\ hdr = <<>>
    /\ terr = <<>>
    /\ result = <<>>
    /\ barCurrent = 0
    /\ barFinished = FALSE
    /\ egErr = NoErr
    /\ count = 0
    /\ i = 0
    /\ out = <<>>
    /\ exit = Running

NextPrint ==
    \/ Sort
    \/ PrintStep

SpecPrint == InitPrint /\ [][NextPrint]_vars

\* ------------------------------------- checkLatency around a shared slot

\* The fewest entries of result behind which an append writes in place.
SharedAfter == CHOOSE n \in 1..8 : InPlace(n) /\ \A m \in 1..(n - 1) : ~InPlace(m)

\* checkLatency in the middle of its loop over SharedAfter + 2 peers: the
\* first SharedAfter were measured without loss one after the other and
\* their tasks have ended; the last two are still to be started.
InitRace ==
    /\ \E kinds \in [(SharedAfter + 1)..(SharedAfter + 2) -> GossipKinds] :
         nodes = [p \in 1..(SharedAfter + 2) |->
                     ClusterNode(p, IF p <= SharedAfter THEN "hostport" ELSE kinds[p])]
    /\ mpc = "loop"
    /\ idx = SharedAfter
    /\ node = nodes[SharedAfter]
    /\ sem = 0
    /\ tpc = [p \in 1..SharedAfter |-> "done"]
    /\ tnode = SubSeq(nodes, 1, SharedAfter)
    /\ ip = [p \in 1..SharedAfter |-> <<HostOf(p)>>]
    /\ stats = [p \in 1..SharedAfter |-> [AvgRtt |-> RttOf(p), PacketLoss |-> 0]]
    /\ hdr = [p \in 1..SharedAfter |-> <<>>]
    /\ terr = [p \in 1..SharedAfter |-> NoErr]
    /\ result = [p \in 1..SharedAfter |->
                    [Time |-> RttOf(p), IP |-> <<HostOf(p)>>, ClusterNode |-> p]]
    /\ barCurrent = SharedAfter
    /\ barFinished = FALSE
    /\ egErr = NoErr
    /\ ret = NoRet
    /\ latency = <<>>
    /\ top = 0
    /\ count = 0
    /\ i = 0
    /\ out = <<>>
    /\ exit = Running

NextRace ==
    \/ CoordAcquire
    \/ CoordGo
    \/ BarFinish
    \/ EgWait
    \/ \E t \in Tasks : TaskInvalidGossip(t)
    \/ \E t \in Tasks : TaskNewPingerFail(t)
    \/ \E t \in Tasks : TaskRunFail(t)
    \/ \E t \in Tasks : \E loss \in Losses : TaskRun(t, loss)
    \/ \E t \in Tasks : TaskAppendLoad(t)
    \/ \E t \in Tasks : TaskAppendStore(t)
    \/ \E t \in Tasks : TaskSkipAppend(t)
    \/ \E t \in Tasks : TaskIncrement(t)
    \/ \E t \in Tasks : TaskRelease(t)
    \/ \E t \in Tasks : TaskExit(t)

SpecRace == InitRace /\ [][NextRace]_vars

\* ------------------------------------------------------------- properties

\* Tasks that were started and have not yet released their slot.
InFlight == {t \in Tasks : tpc[t] \in {"probe", "loss", "store", "incr", "release"}}

\* The task returned (or is returning) a non-nil error.
Failed(t) == terr[t] # NoErr

\* The task's probe completed, with no packet loss / with packet loss.
ZeroLoss(t) == tpc[t] # "probe" /\ ~Failed(t) /\ stats[t].PacketLoss = 0
Lossy(t) == tpc[t] # "probe" /\ ~Failed(t) /\ stats[t].PacketLoss # 0

\* The slice res holds an entry of task t's peer.
InResult(t, res) == \E k \in 1..Len(res) : res[k].ClusterNode = t

Min(a, b) == IF a < b THEN a ELSE b

\* C1: at every moment of a checkLatency run, the tasks that were started
\* and have not yet released their slot are at most concurrency many.
C1_AtMostKInFlight == Cardinality(InFlight) <= concurrency

\* C1 witness: as many tasks in flight as there are slots, while the loop
\* still has a peer to start.
C1_Witness ==
    /\ mpc = "loop"
    /\ idx < Len(nodes)
    /\ Cardinality(InFlight) = concurrency

\* Exactly one peer's task failed and every other peer's probe completed
\* without packet loss, and checkLatency has returned.
OneFailedRestMeasured ==
    /\ mpc = "returned"
    /\ \E t \in Tasks : Failed(t) /\ \A u \in Tasks \ {t} : ZeroLoss(u)

C3_OutputLength ==
    mpc = "exited" => Len(out) = Min(top, Len(ret.result))

\* C4 as claimed: the ResultSet checkLatency returns holds an entry of every
\* peer whose probe completed without packet loss.
C4_NoAppendLost ==
    (mpc = "returned" /\ ret.err = NoErr) =>
        \A t \in Tasks : ZeroLoss(t) => InResult(t, ret.result)

C6_FinishAfterAllTasks ==
    barFinished => \A t \in Tasks : tpc[t] \in {"release", "exit", "done"}

\* The entry of the ResultSet printResult was given that line l shows, and
\* the peers the lines printed so far show.
EntryOfLine(l) ==
    CHOOSE k \in 1..Len(ret.result) :
        tnode[ret.result[k].ClusterNode].Pubkey = l.pubkey
PrintedPeers == {out[a].pubkey : a \in 1..Len(out)}

\* C7: the lines printResult prints are ascending by latency and show the
\* lowest-latency entries of the ResultSet: each line shows an entry of the
\* ResultSet, no entry twice, an earlier line's latency is at most a later
\* line's, and no entry left unprinted has a lower latency than a printed
\* one.
C7_PrintedAscendingLowest ==
    /\ \A a \in 1..Len(out) :
           /\ \E k \in 1..Len(ret.result) :
                  tnode[ret.result[k].ClusterNode].Pubkey = out[a].pubkey
           /\ out[a].ms = Milliseconds(ret.result[EntryOfLine(out[a])].Time)
           /\ out[a].index = a - 1
    /\ \A a, b \in 1..Len(out) :
           a < b => /\ out[a].pubkey # out[b].pubkey
                    /\ ret.result[EntryOfLine(out[a])].Time
                           <= ret.result[EntryOfLine(out[b])].Time
    /\ \A a \in 1..Len(out) : \A k \in 1..Len(ret.result) :
           tnode[ret.result[k].ClusterNode].Pubkey \notin PrintedPeers =>
               ret.result[EntryOfLine(out[a])].Time <= ret.result[k].Time

\* C7 witness: printResult has returned after printing at least two lines
\* but not every entry, of a ResultSet that was not in ascending order and
\* whose first entry is not among the printed ones.
C7_Witness ==
    /\ mpc = "exited"
    /\ exit.status = "ok"
    /\ Len(out) >= 2
    /\ Len(out) < Len(ret.result)
    /\ tnode[ret.result[1].ClusterNode].Pubkey \notin PrintedPeers
    /\ \E a, b \in 1..Len(ret.result) :
           a < b /\ ret.result[a].Time > ret.result[b].Time

\* No peer twice in res, and only peers whose probe completed without loss.
NoDuplicateNoLoss(res) ==
    \A k \in 1..Len(res) :
        /\ ZeroLoss(res[k].ClusterNode)
        /\ \A j \in 1..Len(res) :
               j # k => tnode[res[j].ClusterNode].Pubkey
                            # tnode[res[k].ClusterNode].Pubkey

\* C8: over a peer list with distinct peers, the ResultSet holds no peer
\* more than once and only entries whose probe recorded zero packet loss,
\* while the tasks run and when checkLatency returns it.
C8_NoDuplicateNoLoss ==
    /\ NoDuplicateNoLoss(result)
    /\ mpc = "returned" => NoDuplicateNoLoss(ret.result)

\* C8 witness: checkLatency has returned a ResultSet of two entries or more
\* from a run in which a probe was lossy.
C8_Witness ==
    /\ mpc = "returned"
    /\ Len(ret.result) >= 2
    /\ \E t \in Tasks : Lossy(t)

\* C9: a slot is released exactly once by every task that ends, on every
\* exit path: the slots held are always those of the tasks that have not
\* yet released (and the one taken for a task about to be started), and
\* once all tasks have ended no slot is held.
C9_SlotReleasedOnce ==
    /\ sem = Cardinality(InFlight) + (IF mpc = "go" THEN 1 ELSE 0)
    /\ (mpc \in {"wait", "returned"} /\ AllDone) => sem = 0

\* C9 witness: all three tasks have ended, one on an invalid address, one
\* on a pinger error, one after its probe completed, and no slot is held.
C9_Witness ==
    /\ mpc = "wait"
    /\ AllDone
    /\ sem = 0
    /\ \E t \in Tasks : terr[t].kind = "invalid gossip ip"
    /\ \E t \in Tasks : terr[t].kind \in {"NewPinger", "Run"}
    /\ \E t \in Tasks : ~Failed(t)

\* C10 as claimed: in a run whose only failures are lossy probes,
\* checkLatency returns no error and a ResultSet that holds no lossy peer
\* and every zero-loss peer.
C10_LossyExcludedRestKept ==
    (/\ mpc = "returned"
     /\ \E t \in Tasks : Lossy(t)
     /\ \A t \in Tasks : ~Failed(t)) =>
        /\ ret.err = NoErr
        /\ \A t \in Tasks : Lossy(t) => ~InResult(t, ret.result)
        /\ \A t \in Tasks : ZeroLoss(t) => InResult(t, ret.result)

\* The task has ended with an outcome of its own: an error, a lossy probe,
\* or a measurement whose append it has executed.
OwnOutcome(t) == tpc[t] = "done" /\ (Failed(t) \/ Lossy(t) \/ ZeroLoss(t))

\* C11: a peer's failure cancels nothing: once a task has ended with an
\* error the loop still starts a task for every later peer, and when the
\* coordinator returns every peer of the list has had its task, and every
\* task has run to its own outcome.
C11_NoCancellation ==
    (\E t \in Tasks : Failed(t) /\ tpc[t] = "done") =>
        /\ mpc \in {"loop", "go", "wait", "returned"}
        /\ mpc = "wait" => Len(tpc) = Len(nodes)
        /\ mpc = "returned" =>
               /\ Len(tpc) = Len(nodes)
               /\ \A t \in Tasks : OwnOutcome(t)

\* C11 witness: the first peer's task has ended with an error, recorded by
\* the errgroup, before the third peer's task was started; that task has
\* measured its peer and executed its append.
C11_Witness ==
    /\ Len(tpc) = 3
    /\ tpc[1] = "done"
    /\ Failed(1)
    /\ egErr = terr[1]
    /\ tpc[2] = "probe"
    /\ tpc[3] = "incr"
    /\ InResult(3, result)

\* When checkLatency returns, every peer has had its task, every task has
\* terminated and the ResultSet returned is the result slice.
JoinedAtReturn ==
    /\ Len(tpc) = Len(nodes)
    /\ \A t \in Tasks : tpc[t] = "done"
    /\ ret.err = NoErr => ret.result = result

\* A step taken after checkLatency returned leaves what it returned alone.
FrozenAfterReturn ==
    mpc \in {"returned", "sort", "print", "exited"} => ret' = ret

\* A step that enters printResult is taken from checkLatency's return, with
\* every task terminated, and passes the ResultSet returned.
PrintAfterReturn ==
    mpc' = "sort" =>
        (mpc = "returned" /\ (\A t \in Tasks : tpc[t] = "done")
                          /\ latency' = ret.result)

\* C12: checkLatency returns only when every peer has had its task and
\* every task has terminated; what it returns is the result slice as the
\* tasks left it and never changes afterwards, and printResult is called
\* only from there, on that ResultSet.
C12_ReturnAfterJoin ==
    /\ [](mpc = "returned" => JoinedAtReturn)
    /\ [][FrozenAfterReturn]_vars
    /\ [][PrintAfterReturn]_vars

\* C12 witness: printResult has been called with a ResultSet of two
\* entries, after checkLatency returned it.
C12_Witness ==
    /\ mpc = "sort"
    /\ Len(latency) = 2
    /\ latency = ret.result
    /\ Len(nodes) = 3

\* C13: under fair scheduling and with probes that end, from the start of
\* the loop every peer of the list gets its slot and its task, every task
\* ends, and checkLatency returns, whatever the length of the list (longer
\* than concurrency, or empty).
C13_NoStarvation ==
    /\ \A p \in 1..MaxPeers :
           (mpc = "loop" /\ p <= Len(nodes)) ~> (p <= Len(tpc) /\ tpc[p] = "done")
    /\ (mpc = "loop") ~> (mpc = "returned")

\* C13 witness: checkLatency has returned from a list longer than
\* concurrency, whose last peer had to wait for a slot.
C13_Witness ==
    /\ mpc = "returned"
    /\ Len(nodes) > concurrency
    /\ Len(tpc) = Len(nodes)
    /\ ret.err = NoErr

\* C14: when buildURL or getClusterNodes returns an error the run ends
\* there, through log.Fatal with that error: there is no peer list, no task
\* was ever started, checkLatency and printResult were never called and
\* nothing is printed.
C14_FetchErrorAborts ==
    (mpc = "exited" /\ exit.err.kind \in FetchErrs \cup {"parse"}) =>
        /\ exit.status = "fatal"
        /\ nodes = <<>>
        /\ tnode = <<>>
        /\ tpc = <<>>
        /\ ret = NoRet
        /\ latency = <<>>
        /\ out = <<>>

\* C14 witness: the endpoint answered with invalid JSON and the run has
\* ended.
C14_Witness ==
    /\ mpc = "exited"
    /\ exit = Exited("fatal", Err("Unmarshal", 0))

\* C15 as claimed: of two entries of the ResultSet with equal latency, the
\* one appended earlier is printed before the one appended later.
C15_TiesInAppendOrder ==
    \A x, y \in 1..Len(out) :
        (/\ ret.result[EntryOfLine(out[x])].Time = ret.result[EntryOfLine(out[y])].Time
         /\ EntryOfLine(out[x]) < EntryOfLine(out[y])) => x < y

\* The loop of checkLatency has a further peer to start.
PeersLeft == mpc = "loop" /\ idx < Len(nodes)

OneCompletionSignal ==
    /\ ret.err = egErr
    /\ (\A t \in Tasks : ~Failed(t)) =>
           ret = [result |-> result, isNil |-> FALSE, err |-> NoErr]
    /\ (\E t \in Tasks : Failed(t)) =>
           /\ \E t \in Tasks : Failed(t) /\ ret.err = terr[t]
           /\ ret.isNil
           /\ ret.result = <<>>
    /\ ret.err # NoErr => ret.isNil

\* A task's return is recorded by the errgroup while it holds no error:
\* the errgroup then holds that task's error.
FirstErrRecorded ==
    \A t \in Tasks :
        (/\ Len(tpc') = Len(tpc)
         /\ tpc[t] = "exit"
         /\ tpc'[t] = "done"
         /\ egErr = NoErr) => egErr' = terr[t]

\* An error held by the errgroup stays until checkLatency has returned.
LaterErrDropped ==
    (mpc \in {"loop", "go", "wait"} /\ egErr # NoErr) => egErr' = egErr

\* C17: checkLatency returns either the ResultSet and no error, when no
\* task returned an error, or a nil ResultSet and the error of the first
\* task whose error return reached the errgroup; never both an error and a
\* non-nil ResultSet, and the errors of later tasks are dropped.
C17_FirstErrorOrResult ==
    /\ [](mpc = "returned" => OneCompletionSignal)
    /\ [][FirstErrRecorded]_vars
    /\ [][LaterErrDropped]_vars

\* C17 witness: checkLatency has returned the error of one failed task
\* while another task failed with a different error.
C17_Witness ==
    /\ mpc = "returned"
    /\ ret.err # NoErr
    /\ ret.isNil
    /\ \E t, u \in Tasks : /\ Failed(t) /\ Failed(u)
                           /\ ret.err = terr[t]
                           /\ terr[u] # ret.err

\* The entries of res carry the host of the peer record they point to.
OwnHost(res) ==
    \A k \in 1..Len(res) :
        <<res[k].IP>> = SubSeq(Split(tnode[res[k].ClusterNode].Gossip, ":"), 1, 1)

\* C18 as claimed: every task's record is the record of its own peer, which
\* neither the loop nor another task changes, and every entry of the
\* ResultSet carries the host part of the gossip address of the peer whose
\* record it points to.
C18_EntryOfOwnRecord ==
    /\ \A t \in Tasks : tnode[t] = nodes[t]
    /\ OwnHost(result)
    /\ OwnHost(ret.result)

\* C19 as claimed: every index the print loop visits is an index of the
\* ResultSet (0 <= i < n), so printResult never ends in an index-out-of-
\* range panic, whatever the size of the ResultSet and the value of top.
C19_IndexInRange ==
    /\ (mpc = "print" /\ i < count) => (0 <= i /\ i < Len(latency))
    /\ exit.status # "panic"

====
